---- MODULE Spec2Model ----
(***************************************************************************)
(* Model of the training side of the game (ML/training):                   *)
(*   replay_buffer.py      ReplayBuffer (uniform sampling) and             *)
(*                         PrioritizedReplayBuffer (priority weighted      *)
(*                         sampling with importance weights);              *)
(*   train_agent.py        AngryBirdsTrainer: compute_reward, the          *)
(*                         exploration rate of train, save_model and       *)
(*                         load_model;                                     *)
(*   unity_environment.py  UnityEnvironmentWrapper: the framed JSON link   *)
(*                         to the simulator.                               *)
(* Each component has its own specification; the variables of the others   *)
(* stay at rest in it.                                                     *)
(*                                                                         *)
(* Numbers.  Priorities are counted in units of epsilon (1e-6), so         *)
(* Epsilon is 1 and the default priority 1.0 is 1000000.  Probabilities    *)
(* and weights are exact rationals <<num, den>> in lowest terms with a     *)
(* positive denominator.  The exponents alpha and beta are constructor     *)
(* arguments; the model instantiates them with the integers of Exponents,  *)
(* for which x ** alpha is a rational.                                     *)
(*                                                                         *)
(* Records.  Every experience handed to add is a new dict, as in           *)
(* train_agent.py and in the module's self test, so a record is identified *)
(* by the number of the add call that stored it.                           *)
(*                                                                         *)
(* Calls.  Each action is one call of a method, with its arguments drawn   *)
(* from small sets; batch_size is a count, 0..MaxBatch.  The variable last *)
(* records the call just made: its arguments, the buffer and priorities    *)
(* before it, whether it returned (ok) or raised, and what it returned.    *)
(***************************************************************************)
EXTENDS Integers, Sequences, FiniteSets, TLC

VARIABLES
    kind,        \* the class of the store object
    capacity,    \* self.capacity, the maxlen of both deques
    buffer,      \* self.buffer: sequence of records [id, weight]
    priorities,  \* self.priorities (PrioritizedReplayBuffer only)
    alpha,       \* self.alpha
    beta,        \* self.beta
    nextId,      \* id of the next experience created by the caller
    ops,         \* number of calls made so far
    clears,      \* number of clear calls made so far
    last         \* the last call: its arguments, the state before it, its result

VARIABLES
    info,        \* the info map handed to compute_reward
    rewards,     \* self.config['rewards']
    reward,      \* <<>> before the first call, then <<r>>: what the last call returned
    firstReward, \* what the first call returned
    rcalls,      \* number of compute_reward calls made so far
    rlast        \* the trainer state and the arguments before the last call

VARIABLES
    training,         \* self.config['training']
    exploration_rate, \* self.exploration_rate
    episode_rewards,  \* self.episode_rewards
    phase,            \* where the trainer process is: "none", "created", "training", "done"
    episode,          \* the loop variable of train
    rates,            \* the exploration rates of this run: the first, then one per episode
    checkpoints,      \* the checkpoint files written so far
    runs,             \* number of trainer processes started so far
    model,            \* the state of self.model and self.optimizer: the updates made
    loaded            \* <<>>, or <<c>> once load_model read the file c in this process

VARIABLES
    entry,           \* the script that runs: "none", "train_agent", "example_train"
    missing,         \* the configuration group the file lacks, "" when it is whole
    min_size,        \* self.config['replay_buffer']['min_size']
    pc,              \* the statement the process is at
    exc,             \* the exception raised in this process, "" when none was
    state,           \* the local state of train
    episode_reward,  \* the local episode_reward of train
    episode_length,  \* the local episode_length of train
    episode_lengths, \* self.episode_lengths
    total_steps,      \* number of steps train completed, over all episodes
    episode_data,    \* the local episode_data of train: the episode's experiences
    resets,          \* number of env.reset() calls train made
    tstep            \* the last iteration of the step loop: what it did, in order

VARIABLES
    socket,      \* self.socket: "none", "open", or "closed" once socket.close() ran
    connected,   \* self.connected
    inbox,       \* bytes the simulator wrote that the link has not read yet
    peerClosed,  \* the simulator closed its end of the connection
    framesOut,   \* number of whole frames the link wrote on this connection
    steps,       \* number of calls and of simulator writes so far
    llast        \* the last call on the link: arguments, state before it, outcome

storeVars == <<kind, capacity, buffer, priorities, alpha, beta, nextId, ops, clears, last>>
rewardVars == <<info, rewards, reward, firstReward, rcalls, rlast>>
trainerVars == <<training, exploration_rate, episode_rewards, phase, episode, rates,
                 checkpoints, runs, model, loaded>>
runVars == <<entry, missing, min_size, pc, exc, state, episode_reward, episode_length,
             episode_lengths, total_steps, episode_data, resets, tstep>>

linkVars == <<socket, connected, inbox, peerClosed, framesOut, steps, llast>>

vars == <<storeVars, rewardVars, trainerVars, linkVars, runVars>>

\* what a call on one component leaves alone
notStore == <<rewardVars, trainerVars, linkVars, runVars>>
notReward == <<storeVars, trainerVars, linkVars, runVars>>
notTrainer == <<storeVars, rewardVars, linkVars, runVars>>
notLink == <<storeVars, rewardVars, trainerVars, runVars>>

----------------------------------------------------------------------------
(* Bounds of the model *)

MaxCapacity == 2
MaxOps == 5
MaxBatch == 2

(* Program constants *)

Epsilon == 1
DefaultPriority == 1000000

(* Inputs of the model *)

\* values of alpha and of beta
Exponents == {0, 1}

\* explicit priorities handed to add, in units of epsilon
AddPriorities == {0, 2}

\* the priorities argument of update_priorities, in units of epsilon
NewPriorityLists == {<<1>>, <<0, 1>>, <<1, 0>>}

\* the indices argument of update_priorities for a priority deque of length n:
\* none, the first, the last by a negative index, the first out of range, two
\* distinct indices, one index twice, a valid index then one out of range
IndexLists(n) == {<<>>, <<0>>, <<-1>>, <<n>>, <<0, n - 1>>, <<0, 0>>, <<0, n>>}

NoWeight == <<>>

----------------------------------------------------------------------------
(* Components that take no part in a specification *)

RewardIdle ==
    /\ info = <<>>
    /\ rewards = <<>>
    /\ reward = <<>>
    /\ firstReward = <<>>
    /\ rcalls = 0
    /\ rlast = <<>>

TrainerIdle ==
    /\ training = <<>>
    /\ exploration_rate = <<>>
    /\ episode_rewards = <<>>
    /\ phase = "none"
    /\ episode = 0
    /\ rates = <<>>
    /\ checkpoints = {}
    /\ runs = 0
    /\ model = 0
    /\ loaded = <<>>

RunIdle ==
    /\ entry = "none"
    /\ missing = ""
    /\ min_size = 0
    /\ pc = "none"
    /\ exc = ""
    /\ state = <<>>
    /\ episode_reward = 0
    /\ episode_length = 0
    /\ episode_lengths = <<>>
    /\ total_steps = 0
    /\ episode_data = <<>>
    /\ resets = 0
    /\ tstep = <<>>

LinkIdle ==
    /\ socket = "none"
    /\ connected = FALSE
    /\ inbox = <<>>
    /\ peerClosed = FALSE
    /\ framesOut = 0
    /\ steps = 0
    /\ llast = <<>>

StoreIdle ==
    /\ kind = "ReplayBuffer"
    /\ capacity = 0
    /\ buffer = <<>>
    /\ priorities = <<>>
    /\ alpha = 0
    /\ beta = 0
    /\ nextId = 1
    /\ ops = 0
    /\ clears = 0
    /\ last = <<>>

----------------------------------------------------------------------------
(* Arithmetic on exact rationals *)

Abs(x) == IF x < 0 THEN -x ELSE x

RECURSIVE GCD(_, _)
GCD(a, b) == IF b = 0 THEN a ELSE GCD(b, a % b)

Rat(n, d) ==
    LET g == GCD(Abs(n), Abs(d))
        s == IF d < 0 THEN -1 ELSE 1
    IN  <<(s * n) \div g, (s * d) \div g>>

RatInv(x) == Rat(x[2], x[1])

RatScale(k, x) == Rat(k * x[1], x[2])

\* x / y with the common factors cancelled before multiplying
RatDiv(x, y) ==
    LET g1 == GCD(Abs(x[1]), Abs(y[1]))
        g2 == GCD(x[2], y[2])
    IN  Rat((x[1] \div g1) * (y[2] \div g2), (x[2] \div g2) * (y[1] \div g1))

\* a/b < c/d for a, c >= 0 and b, d > 0, by continued fractions
RECURSIVE FracLess(_, _, _, _)
FracLess(a, b, c, d) ==
    IF (a \div b) # (c \div d) THEN (a \div b) < (c \div d)
    ELSE IF c % d = 0 THEN FALSE
    ELSE IF a % b = 0 THEN TRUE
    ELSE FracLess(d, c % d, b, a % b)

RatLess(x, y) ==
    IF x[1] < 0 /\ y[1] >= 0 THEN TRUE
    ELSE IF x[1] >= 0 /\ y[1] < 0 THEN FALSE
    ELSE IF x[1] < 0 THEN FracLess(-y[1], y[2], -x[1], x[2])
    ELSE FracLess(x[1], x[2], y[1], y[2])

RatLeq(x, y) == x = y \/ RatLess(x, y)

RECURSIVE IntPow(_, _)
IntPow(x, k) == IF k = 0 THEN 1 ELSE x * IntPow(x, k - 1)

RECURSIVE RatPow(_, _)
RatPow(x, k) ==
    IF k = 0 THEN <<1, 1>>
    ELSE LET y == RatPow(x, k - 1) IN Rat(x[1] * y[1], x[2] * y[2])

RECURSIVE SeqSum(_)
SeqSum(s) == IF s = <<>> THEN 0 ELSE Head(s) + SeqSum(Tail(s))

Min(a, b) == IF a < b THEN a ELSE b

SeqMax(s) == CHOOSE x \in {s[i] : i \in DOMAIN s} : \A j \in DOMAIN s : s[j] <= x

RatSeqMax(s) == CHOOSE x \in {s[i] : i \in DOMAIN s} : \A j \in DOMAIN s : RatLeq(s[j], x)

\* all sequences of distinct elements of S of length k
RECURSIVE Arrangements(_, _)
Arrangements(S, k) ==
    IF k = 0 THEN {<<>>}
    ELSE UNION {{Append(a, x) : x \in S \ {a[i] : i \in DOMAIN a}} : a \in Arrangements(S, k - 1)}

----------------------------------------------------------------------------
(* collections.deque(maxlen=...) *)

DequeAppend(q, x, maxlen) ==
    IF maxlen = 0 THEN q
    ELSE IF Len(q) = maxlen THEN Append(Tail(q), x)
    ELSE Append(q, x)

NewRecord(id) == [id |-> id, weight |-> NoWeight]

Ids(s) == {s[i].id : i \in DOMAIN s}

NoCall == [op |-> "init", buf |-> <<>>, pri |-> <<>>, n |-> 0, given |-> <<>>,
           pairs |-> <<>>, ok |-> TRUE, idx |-> <<>>, ret |-> <<>>]

Called(op, n, given, pairs, ok, idx, ret) ==
    [op |-> op, buf |-> buffer, pri |-> priorities, n |-> n, given |-> given,
     pairs |-> pairs, ok |-> ok, idx |-> idx, ret |-> ret]

----------------------------------------------------------------------------
(* ReplayBuffer *)

InitReplay ==
    /\ kind = "ReplayBuffer"
    /\ capacity \in 0..MaxCapacity
    /\ buffer = <<>>
    /\ priorities = <<>>
    /\ alpha = 0
    /\ beta = 0
    /\ nextId = 1
    /\ ops = 0
    /\ clears = 0
    /\ last = NoCall
    /\ RewardIdle
    /\ TrainerIdle
    /\ LinkIdle
    /\ RunIdle

\* add that appends without evicting
BufferAfterAddNoEvict(buf, rec, cap) == Append(buf, rec)

\* add that drops the new record when the store is full
BufferAfterAddDropNew(buf, rec, cap) == IF Len(buf) >= cap THEN buf ELSE Append(buf, rec)

BufferAfterAdd(buf, rec, cap) == DequeAppend(buf, rec, cap)

Add ==
    /\ ops < MaxOps
    /\ ops' = ops + 1
    /\ buffer' = BufferAfterAdd(buffer, NewRecord(nextId), capacity)
    /\ nextId' = nextId + 1
    /\ last' = Called("add", nextId, <<>>, <<>>, TRUE, <<>>, <<>>)
    /\ UNCHANGED <<kind, capacity, priorities, alpha, beta, clears>>
    /\ UNCHANGED notStore

\* sample that always returns the whole store
SampleSizeWholeStore(batch_size, size) == size

SampleSize(batch_size, size) == Min(batch_size, size)

\* random.sample(population, k): the possible draws, any k distinct positions in
\* any order; none (ValueError) when k is larger than the population
RandomSample(size, k) ==
    IF k > size THEN {}
    ELSE Arrangements(1..size, k)

Sample ==
    /\ ops < MaxOps
    /\ ops' = ops + 1
    /\ \E batch_size \in 0..MaxBatch :
         LET k == SampleSize(batch_size, Len(buffer))
             draws == RandomSample(Len(buffer), k)
         IN  \/ /\ draws = {}
                /\ last' = Called("sample", batch_size, <<>>, <<>>, FALSE, <<>>, <<>>)
             \/ \E idx \in draws :
                  last' = Called("sample", batch_size, <<>>, <<>>, TRUE, idx,
                                 [i \in DOMAIN idx |-> buffer[idx[i]]])
    /\ UNCHANGED <<kind, capacity, buffer, priorities, alpha, beta, nextId, clears>>
    /\ UNCHANGED notStore

Clear ==
    /\ ops < MaxOps
    /\ ops' = ops + 1
    /\ clears' = clears + 1
    /\ buffer' = <<>>
    /\ last' = Called("clear", 0, <<>>, <<>>, TRUE, <<>>, <<>>)
    /\ UNCHANGED <<kind, capacity, priorities, alpha, beta, nextId>>
    /\ UNCHANGED notStore

NextReplay == Add \/ Sample \/ Clear

SpecReplay == InitReplay /\ [][NextReplay]_vars

----------------------------------------------------------------------------
(* Claims about ReplayBuffer, checked under SpecReplay *)

IsDistinct(s) == \A i, j \in DOMAIN s : i # j => s[i] # s[j]

\* the last k elements of s
LastK(s, k) == SubSeq(s, Len(s) - k + 1, Len(s))

\* C1: after any sequence of add, sample and clear calls the number of stored
\* records is never greater than the capacity.
C1_SizeWithinCapacity == Len(buffer) <= capacity

\* an add into a full store has happened
C1_Witness ==
    /\ last.op = "add"
    /\ capacity > 0
    /\ Len(last.buf) = capacity
    /\ Len(buffer) = capacity

\* C2: add evicts oldest-first.  With n adds made into a store of capacity C and
\* no clear, the store holds the last min(n, C) inserted records in insertion
\* order; each add leaves the last min(size + 1, C) records of the old content
\* followed by the new record; and a record leaves the store only as the oldest
\* record of a full store on add, or by clear.
C2_OldestFirst ==
    /\ clears = 0 =>
          buffer = [i \in 1..Min(nextId - 1, capacity) |->
                      NewRecord(nextId - 1 - Min(nextId - 1, capacity) + i)]
    /\ last.op = "add" =>
          buffer = LastK(Append(last.buf, NewRecord(last.n)),
                         Min(Len(last.buf) + 1, capacity))
    /\ \A r \in Ids(last.buf) \ Ids(buffer) :
          \/ last.op = "clear"
          \/ /\ last.op = "add"
             /\ Len(last.buf) = capacity
             /\ r = Head(last.buf).id

\* more adds than the capacity have been made, with no clear
C2_Witness ==
    /\ last.op = "add"
    /\ clears = 0
    /\ capacity >= 2
    /\ nextId - 1 >= capacity + 2
    /\ Head(buffer).id = nextId - capacity

\* C3 as stated: sample(n) returns exactly min(n, S) records from distinct
\* positions, and the result is empty if and only if S = 0.
C3_EmptyOnlyWhenStoreEmpty ==
    last.op = "sample" =>
        /\ last.ok
        /\ Len(last.ret) = Min(last.n, Len(last.buf))
        /\ IsDistinct(last.idx)
        /\ last.ret = [i \in DOMAIN last.idx |-> last.buf[last.idx[i]]]
        /\ (last.ret = <<>>) <=> (Len(last.buf) = 0)

\* C3 amended: for every n >= 0, sample(n) returns exactly min(n, S) records from
\* distinct positions of the store, and the result is empty if and only if
\* S = 0 or n = 0.
C3_SampleSize ==
    last.op = "sample" =>
        /\ last.ok
        /\ Len(last.ret) = Min(last.n, Len(last.buf))
        /\ Len(last.idx) = Len(last.ret)
        /\ \A i \in DOMAIN last.idx : last.idx[i] \in DOMAIN last.buf
        /\ IsDistinct(last.idx)
        /\ last.ret = [i \in DOMAIN last.idx |-> last.buf[last.idx[i]]]
        /\ (last.ret = <<>>) <=> (Len(last.buf) = 0 \/ last.n = 0)

\* a sample of fewer records than the store holds, and more than none
C3_Witness ==
    /\ last.op = "sample"
    /\ last.ok
    /\ last.n >= 1
    /\ Len(last.buf) > last.n
    /\ Len(last.ret) = last.n

----------------------------------------------------------------------------
(* PrioritizedReplayBuffer *)

InitPrioritized ==
    /\ kind = "PrioritizedReplayBuffer"
    /\ capacity \in 0..MaxCapacity
    /\ buffer = <<>>
    /\ priorities = <<>>
    /\ alpha \in Exponents
    /\ beta \in Exponents
    /\ nextId = 1
    /\ ops = 0
    /\ clears = 0
    /\ last = NoCall
    /\ RewardIdle
    /\ TrainerIdle
    /\ LinkIdle
    /\ RunIdle

\* the priority add stores; given is <<>> for priority=None, <<p>> otherwise
AddedPriority(given, pri) ==
    IF given = <<>>
    THEN IF pri # <<>> THEN SeqMax(pri) ELSE DefaultPriority
    ELSE given[1]

\* an add that drops the new priority when the priorities are full
PrioritiesAfterAddDropNew(pri, p, cap) == IF Len(pri) >= cap THEN pri ELSE Append(pri, p)

\* self.priorities.append(priority) on a deque of maxlen capacity
PrioritiesAfterAdd(pri, p, cap) == DequeAppend(pri, p, cap)

PrioritizedAdd ==
    /\ ops < MaxOps
    /\ ops' = ops + 1
    /\ \E given \in {<<>>} \cup {<<p>> : p \in AddPriorities} :
         /\ buffer' = DequeAppend(buffer, NewRecord(nextId), capacity)
         /\ priorities' = PrioritiesAfterAdd(priorities, AddedPriority(given, priorities),
                                             capacity)
         /\ last' = Called("add", nextId, given, <<>>, TRUE, <<>>, <<>>)
    /\ nextId' = nextId + 1
    /\ UNCHANGED <<kind, capacity, alpha, beta, clears>>
    /\ UNCHANGED notStore

\* priorities ** alpha, elementwise
Powered(pri, a) == [i \in DOMAIN pri |-> IntPow(pri[i], a)]

\* probabilities /= probabilities.sum(): a zero sum gives nan or +-inf entries,
\* whose sum is nan
ProbabilitiesAreNaN(pri, a) == SeqSum(Powered(pri, a)) = 0

Probabilities(pri, a) ==
    LET q == Powered(pri, a)
        total == SeqSum(q)
    IN  [i \in DOMAIN pri |-> Rat(q[i], total)]

\* np.random.choice(a, size=size, replace=False, p=p): TRUE when it raises
\* ValueError
ChoiceRaises(a, size, pri, al) ==
    IF Len(pri) # a THEN TRUE                 \* 'a' and 'p' must have same size
    ELSE IF ProbabilitiesAreNaN(pri, al) THEN TRUE    \* probabilities contain NaN
    ELSE LET p == Probabilities(pri, al)
         IN  IF \E i \in DOMAIN p : p[i][1] < 0
             THEN TRUE                        \* probabilities are not non-negative
             ELSE IF size > a THEN TRUE       \* larger sample than population
             ELSE Cardinality({i \in DOMAIN p : p[i][1] > 0}) < size
                                              \* fewer non-zero entries in p than size

\* the draws np.random.choice can return: size distinct positions of non-zero
\* probability, in any order
ChoiceDraws(a, size, pri, al) ==
    LET p == Probabilities(pri, al)
    IN  Arrangements({i \in DOMAIN p : p[i][1] > 0}, size)

\* (len(self.buffer) * probabilities[indices]) ** (-self.beta)
RawWeights(n, pri, al, be, idx) ==
    LET p == Probabilities(pri, al)
    IN  [i \in DOMAIN idx |-> RatInv(RatPow(RatScale(n, p[idx[i]]), be))]

\* weights left as computed, without the division by their maximum
WeightsNotNormalised(n, pri, al, be, idx) == RawWeights(n, pri, al, be, idx)

\* weights /= weights.max()
Weights(n, pri, al, be, idx) ==
    LET w == RawWeights(n, pri, al, be, idx)
        top == RatSeqMax(w)
    IN  [i \in DOMAIN idx |-> RatDiv(w[i], top)]

\* a weight written on every record of the store, drawn or not
AnnotatedWholeStore(buf, idx, w) == [j \in DOMAIN buf |-> [buf[j] EXCEPT !.weight = <<1, 1>>]]

\* exp['weight'] = weights[i] for every record of the batch
Annotated(buf, idx, w) ==
    [j \in DOMAIN buf |->
        IF \E i \in DOMAIN idx : idx[i] = j
        THEN [buf[j] EXCEPT !.weight = w[CHOOSE i \in DOMAIN idx : idx[i] = j]]
        ELSE buf[j]]

PrioritizedSample ==
    /\ ops < MaxOps
    /\ ops' = ops + 1
    /\ \E batch_size \in 0..MaxBatch :
         LET n == Len(buffer)
             size == Min(batch_size, n)
         IN  \/ /\ n = 0
                /\ buffer' = buffer
                /\ last' = Called("sample", batch_size, <<>>, <<>>, TRUE, <<>>, <<>>)
             \/ /\ n # 0
                /\ IF ChoiceRaises(n, size, priorities, alpha) THEN TRUE ELSE size = 0
                /\ buffer' = buffer
                /\ last' = Called("sample", batch_size, <<>>, <<>>, FALSE, <<>>, <<>>)
             \/ /\ n # 0
                /\ ~ ChoiceRaises(n, size, priorities, alpha)
                /\ size # 0
                /\ \E idx \in ChoiceDraws(n, size, priorities, alpha) :
                     LET batch == Annotated(buffer, idx, Weights(n, priorities, alpha, beta, idx))
                     IN  /\ buffer' = batch
                         /\ last' = Called("sample", batch_size, <<>>, <<>>, TRUE, idx,
                                           [i \in DOMAIN idx |-> batch[idx[i]]])
    /\ UNCHANGED <<kind, capacity, priorities, alpha, beta, nextId, clears>>
    /\ UNCHANGED notStore

\* zip(indices, priorities)
Zip(s, t) == [i \in 1..Min(Len(s), Len(t)) |-> <<s[i], t[i]>>]

\* position in a deque of length n of the Python index idx, 0 when out of range
Position(idx, n) ==
    IF idx >= 0 /\ idx < n THEN idx + 1
    ELSE IF idx < 0 /\ idx >= -n THEN idx + n + 1
    ELSE 0

\* update_priorities storing the new priority without adding epsilon
RECURSIVE UpdatedPrioritiesNoEpsilon(_, _)
UpdatedPrioritiesNoEpsilon(pri, pairs) ==
    IF pairs = <<>> THEN [pri |-> pri, ok |-> TRUE]
    ELSE IF Position(Head(pairs)[1], Len(pri)) = 0 THEN [pri |-> pri, ok |-> FALSE]
    ELSE UpdatedPrioritiesNoEpsilon(
             [pri EXCEPT ![Position(Head(pairs)[1], Len(pri))] = Head(pairs)[2]],
             Tail(pairs))

\* the loop of update_priorities: stops with IndexError at the first index out
\* of range, the earlier assignments made
RECURSIVE UpdatedPriorities(_, _)
UpdatedPriorities(pri, pairs) ==
    IF pairs = <<>> THEN [pri |-> pri, ok |-> TRUE]
    ELSE IF Position(Head(pairs)[1], Len(pri)) = 0 THEN [pri |-> pri, ok |-> FALSE]
    ELSE UpdatedPriorities(
             [pri EXCEPT ![Position(Head(pairs)[1], Len(pri))] = Head(pairs)[2] + Epsilon],
             Tail(pairs))

UpdatePriorities ==
    /\ ops < MaxOps
    /\ ops' = ops + 1
    /\ \E indices \in IndexLists(Len(priorities)), new \in NewPriorityLists :
         LET pairs == Zip(indices, new)
             res == UpdatedPriorities(priorities, pairs)
         IN  /\ priorities' = res.pri
             /\ last' = Called("update_priorities", 0, <<>>, pairs, res.ok, <<>>, <<>>)
    /\ UNCHANGED <<kind, capacity, buffer, alpha, beta, nextId, clears>>
    /\ UNCHANGED notStore

NextPrioritized == PrioritizedAdd \/ PrioritizedSample \/ UpdatePriorities \/ Clear

SpecPrioritized == InitPrioritized /\ [][NextPrioritized]_vars

----------------------------------------------------------------------------
(* Claims about PrioritizedReplayBuffer, checked under SpecPrioritized *)

\* C4: the priority sequence has the same length as the record buffer in every
\* reachable state.
C4_PrioritiesParallel == Len(priorities) = Len(buffer)

\* C5: every stored priority is at least epsilon.
C5_PrioritiesAtLeastEpsilon == \A i \in DOMAIN priorities : priorities[i] >= Epsilon

\* C6: add called without a priority stores the maximum priority present among
\* the stored records, or 1.0 if the store is empty.
C6_DefaultPriority ==
    (last.op = "add" /\ last.given = <<>> /\ capacity > 0) =>
        priorities[Len(priorities)] =
            IF last.buf = <<>> THEN DefaultPriority
            ELSE SeqMax(LastK(last.pri, Len(last.buf)))

\* C7, for requested sizes n >= 1: sample(n) on a store of size S > 0 succeeds
\* and returns min(n, S) records drawn from distinct indices of the store, and
\* returns an empty result, not an error, when S = 0.
C7_SampleSucceeds ==
    (last.op = "sample" /\ last.n >= 1) =>
        /\ last.ok
        /\ Len(last.ret) = Min(last.n, Len(last.buf))
        /\ Len(last.idx) = Len(last.ret)
        /\ IsDistinct(last.idx)
        /\ \A i \in DOMAIN last.idx :
              /\ last.idx[i] \in DOMAIN last.buf
              /\ last.ret[i].id = last.buf[last.idx[i]].id

\* C8: in every non-empty batch returned by sample each record carries a weight,
\* every weight is in (0, 1], and the largest weight of the batch is exactly 1.
C8_WeightsNormalised ==
    (last.op = "sample" /\ last.ok /\ last.ret # <<>>) =>
        /\ \A i \in DOMAIN last.ret :
              /\ last.ret[i].weight # NoWeight
              /\ RatLess(<<0, 1>>, last.ret[i].weight)
              /\ RatLeq(last.ret[i].weight, <<1, 1>>)
        /\ \E i \in DOMAIN last.ret : last.ret[i].weight = <<1, 1>>

\* a batch of two records of different priorities, hence of different weights
C8_Witness ==
    /\ last.op = "sample"
    /\ last.ok
    /\ Len(last.ret) = 2
    /\ last.ret[1].weight # last.ret[2].weight
    /\ alpha = 1
    /\ beta = 1

\* the pairs update_priorities assigned before it returned, or raised IndexError
Processed(pairs, n) ==
    LET bad == {k \in DOMAIN pairs : Position(pairs[k][1], n) = 0}
    IN  IF bad = {} THEN pairs
        ELSE SubSeq(pairs, 1, (CHOOSE k \in bad : \A m \in bad : k <= m) - 1)

\* C9: update_priorities(indices, new_priorities) sets, for each paired
\* (index, priority), the stored priority at that index to priority + epsilon
\* (the last pair of an index, when an index is paired more than once), and leaves
\* every other priority, the stored records and their order unchanged.
C9_UpdateSetsPaired ==
    last.op = "update_priorities" =>
        LET done == Processed(last.pairs, Len(last.pri))
            at(j) == {k \in DOMAIN done : Position(done[k][1], Len(last.pri)) = j}
        IN  /\ buffer = last.buf
            /\ DOMAIN priorities = DOMAIN last.pri
            /\ last.ok <=> (done = last.pairs)
            /\ \A j \in DOMAIN priorities :
                  IF at(j) = {}
                  THEN priorities[j] = last.pri[j]
                  ELSE priorities[j] =
                         done[CHOOSE k \in at(j) : \A m \in at(j) : m <= k][2] + Epsilon

\* an update of the first of two priorities has been made, the other left alone
C9_Witness ==
    /\ last.op = "update_priorities"
    /\ last.ok
    /\ Len(last.pairs) = 1
    /\ Len(last.pri) = 2
    /\ priorities[1] = last.pairs[1][2] + Epsilon
    /\ priorities[1] # last.pri[1]
    /\ priorities[2] = last.pri[2]

\* the records of a store with the priorities at their indices
PairsOf(buf, pri) == {<<buf[i].id, pri[i]>> : i \in DOMAIN buf \cap DOMAIN pri}

\* every index holds a record and its priority: add puts the new pair last
\* and keeps the pairs that stay, update_priorities changes the priority
\* of the indices it was given and nothing else
Paired ==
    /\ Len(priorities) = Len(buffer)
    /\ last.op = "add" /\ capacity > 0 =>
          /\ Len(last.pri) = Len(last.buf)
          /\ buffer[Len(buffer)].id = last.n
          /\ priorities[Len(buffer)] = AddedPriority(last.given, last.pri)
          /\ \A j \in 1..(Len(buffer) - 1) :
                <<buffer[j].id, priorities[j]>> \in PairsOf(last.buf, last.pri)
          /\ Len(last.buf) = capacity =>
                \A j \in 1..(Len(buffer) - 1) :
                    /\ buffer[j].id = last.buf[j + 1].id
                    /\ priorities[j] = last.pri[j + 1]
    /\ last.op = "update_priorities" =>
          /\ buffer = last.buf
          /\ \A j \in DOMAIN priorities :
                \/ priorities[j] = last.pri[j]
                \/ \E k \in DOMAIN last.pairs :
                      /\ Position(last.pairs[k][1], Len(last.pri)) = j
                      /\ priorities[j] = last.pairs[k][2] + Epsilon

\* C32: after any sequence of add and update_priorities calls (and of
\* samples, which change neither) the priority at index i belongs to the
\* record at index i: an add that overflows the capacity evicts the oldest
\* record and the oldest priority together, and every stored record keeps
\* the priority it was added with or last updated to at its index.
C32_PairedPriorities == clears = 0 => Paired

\* an add on a full store evicted the oldest pair after update_priorities
\* had changed the priority of the record that stays
C32_Witness ==
    /\ clears = 0
    /\ last.op = "add"
    /\ capacity = 2
    /\ Len(last.buf) = 2
    /\ last.pri[1] # last.pri[2]
    /\ last.pri[2] # DefaultPriority
    /\ priorities[1] = last.pri[2]
    /\ buffer[1].id = last.buf[2].id

\* the pairing in every reachable state, clear included
PairedAlways == Paired

----------------------------------------------------------------------------
(* Either store *)

InitStore == InitReplay \/ InitPrioritized

NextStore ==
    \/ kind = "ReplayBuffer" /\ NextReplay
    \/ kind = "PrioritizedReplayBuffer" /\ NextPrioritized

SpecStore == InitStore /\ [][NextStore]_vars

\* C10: sample leaves the stored records, their order and all priorities
\* unchanged; the only change is the weight written on the records the
\* prioritized sample drew.
C10_SampleOnlyAnnotates ==
    last.op = "sample" =>
        /\ priorities = last.pri
        /\ DOMAIN buffer = DOMAIN last.buf
        /\ \A j \in DOMAIN buffer :
              /\ buffer[j].id = last.buf[j].id
              /\ buffer[j] # last.buf[j] =>
                    /\ kind = "PrioritizedReplayBuffer"
                    /\ \E i \in DOMAIN last.idx : last.idx[i] = j
        /\ kind = "ReplayBuffer" => buffer = last.buf

\* a prioritized sample that drew one record of two and wrote its weight
C10_Witness ==
    /\ last.op = "sample"
    /\ last.ok
    /\ kind = "PrioritizedReplayBuffer"
    /\ Len(last.buf) = 2
    /\ Len(last.idx) = 1
    /\ buffer # last.buf

----------------------------------------------------------------------------
(* AngryBirdsTrainer: exploration rate, reward history and checkpoints *)

\* Rates are exact rationals <<num, den>>.  A checkpoint file is a record
\* [tag, episode, exploration_rate, episode_rewards, model]: the tag names the
\* file, the rest is the saved dictionary (the state dictionaries of the model
\* and of the optimizer are counted as the number of updates that made them).
\* Writing a file of a tag that exists replaces it.  The tags 'final' and
\* 'interrupted' are Final and Interrupted.

MaxEpisodes == 3
MaxRuns == 2

One == <<1, 1>>

\* config['training']: the start rate, the floor, the decay factor, the
\* number of episodes and the checkpoint period
TrainingConfigs ==
    [exploration_rate_start : {One},
     exploration_rate_end   : {<<1, 4>>, <<1, 2>>},
     exploration_decay      : {<<1, 2>>, <<3, 4>>, One},
     max_episodes           : {MaxEpisodes},
     save_frequency         : {2}]

\* the total reward of an episode, in tenths
EpisodeRewardValues == {0, 1650}

\* the policy updates of an episode
EpisodeUpdates(r) == IF r = 0 THEN 0 ELSE 1

Final == -1
Interrupted == -2

RatMul(x, y) == Rat(x[1] * y[1], x[2] * y[2])

RatMax(x, y) == IF RatLess(x, y) THEN y ELSE x

\* a trainer as __init__ leaves it
Created(cfg) ==
    /\ training = cfg
    /\ exploration_rate = cfg.exploration_rate_start
    /\ episode_rewards = <<>>
    /\ phase = "created"
    /\ episode = 0
    /\ rates = <<>>
    /\ model = 0
    /\ loaded = <<>>

InitTrainer ==
    /\ \E cfg \in TrainingConfigs : Created(cfg)
    /\ checkpoints = {}
    /\ runs = 1
    /\ StoreIdle
    /\ RewardIdle
    /\ LinkIdle
    /\ RunIdle

\* a decay that has no floor
DecayedNoFloor(rate, cfg) == RatMul(rate, cfg.exploration_decay)

Decayed(rate, cfg) ==
    RatMax(cfg.exploration_rate_end, RatMul(rate, cfg.exploration_decay))

\* save_model(episode): the file of this tag holds the tag as 'episode', the
\* rate, the reward history and the state of the model and of the optimizer
Saved(files, tag, rate, history, m) ==
    {c \in files : c.tag # tag}
        \cup {[tag |-> tag, episode |-> tag, exploration_rate |-> rate,
                episode_rewards |-> history, model |-> m]}


\* load_model of one of the files written so far, before train is called: the
\* model, the optimizer, the rate and the reward history are restored;
\* checkpoint['episode'] is not read
LoadModel ==
    /\ phase = "created"
    /\ \E c \in checkpoints :
          /\ model' = c.model
          /\ exploration_rate' = c.exploration_rate
          /\ episode_rewards' = c.episode_rewards
          /\ loaded' = <<c>>
    /\ UNCHANGED <<training, phase, episode, rates, checkpoints, runs>>
    /\ UNCHANGED notTrainer

\* train is entered: the first episode runs at the current rate
TrainBegin ==
    /\ phase = "created"
    /\ phase' = "training"
    /\ episode' = 0
    /\ rates' = <<exploration_rate>>
    /\ UNCHANGED <<training, exploration_rate, episode_rewards, checkpoints, runs,
                   model, loaded>>
    /\ UNCHANGED notTrainer

\* the end of an episode of train: the rate decays, the episode's reward is
\* recorded and the periodic checkpoint is written
EpisodeEnd ==
    /\ phase = "training"
    /\ episode < training.max_episodes
    /\ exploration_rate' = Decayed(exploration_rate, training)
    /\ \E r \in EpisodeRewardValues :
          /\ episode_rewards' = Append(episode_rewards, r)
          /\ model' = model + EpisodeUpdates(r)
    /\ rates' = Append(rates, exploration_rate')
    /\ checkpoints' = IF episode % training.save_frequency = 0
                      THEN Saved(checkpoints, episode, exploration_rate',
                                 episode_rewards', model')
                      ELSE checkpoints
    /\ episode' = episode + 1
    /\ UNCHANGED <<training, phase, runs, loaded>>
    /\ UNCHANGED notTrainer

\* the episode loop of train is over: the final checkpoint is written
TrainEnd ==
    /\ phase = "training"
    /\ episode = training.max_episodes
    /\ phase' = "done"
    /\ checkpoints' = Saved(checkpoints, Final, exploration_rate, episode_rewards, model)
    /\ UNCHANGED <<training, exploration_rate, episode_rewards, episode, rates, runs,
                   model, loaded>>
    /\ UNCHANGED notTrainer

\* the process ends, at any point, and a new one constructs a trainer from
\* the same configuration file; the checkpoint files stay
NewProcess ==
    /\ runs < MaxRuns
    /\ runs' = runs + 1
    /\ exploration_rate' = training.exploration_rate_start
    /\ episode_rewards' = <<>>
    /\ phase' = "created"
    /\ episode' = 0
    /\ rates' = <<>>
    /\ model' = 0
    /\ loaded' = <<>>
    /\ UNCHANGED <<training, checkpoints>>
    /\ UNCHANGED notTrainer

NextTrainer == LoadModel \/ TrainBegin \/ EpisodeEnd \/ TrainEnd \/ NewProcess

SpecTrainer == InitTrainer /\ [][NextTrainer]_vars

RestoredFields ==
    loaded # <<>> /\ phase = "created" =>
        /\ model = loaded[1].model
        /\ exploration_rate = loaded[1].exploration_rate
        /\ episode_rewards = loaded[1].episode_rewards

\* C28: after save_model(episode) and load_model of the written file the
\* trainer holds the saved bundle again: the episode index, the exploration
\* rate, the whole reward history, and the model and optimizer state.
C28_RoundTrip ==
    loaded # <<>> /\ phase = "created" =>
        /\ RestoredFields
        /\ loaded[1].episode >= 0 => episode = loaded[1].episode

----------------------------------------------------------------------------
(* AngryBirdsTrainer.compute_reward *)

\* Rewards and coefficients are counted in tenths: structural_damage 0.1 is
\* 1, time_penalty -0.5 is -5, hit_target 10 is 100.  The counts of the info
\* map (damage, pigs_destroyed, birds_used, time_taken) are integers.  A
\* field of the info map is <<>> when the key is absent and <<v>> when the
\* key holds v.

MaxRewardCalls == 2

InfoFields ==
    {"hit_target", "damage", "pigs_destroyed", "level_complete", "birds_used", "time_taken"}

InfoMaps ==
    [hit_target     : {<<>>, <<TRUE>>, <<FALSE>>},
     damage         : {<<>>, <<50>>},
     pigs_destroyed : {<<>>, <<2>>},
     level_complete : {<<>>, <<TRUE>>, <<FALSE>>},
     birds_used     : {<<>>, <<2>>, <<3>>},
     time_taken     : {<<>>, <<10>>}]

ScenarioInfo ==
    [hit_target |-> <<TRUE>>, damage |-> <<50>>, pigs_destroyed |-> <<2>>,
     level_complete |-> <<TRUE>>, birds_used |-> <<2>>, time_taken |-> <<10>>]

ScenarioRewards ==
    [hit_target |-> 100, miss_penalty |-> -50, structural_damage |-> 1,
     pig_destroyed |-> 200, level_complete |-> 1000, efficiency_bonus |-> 150,
     time_penalty |-> -5]

OtherRewards ==
    [hit_target |-> 70, miss_penalty |-> -30, structural_damage |-> 2,
     pig_destroyed |-> 110, level_complete |-> 900, efficiency_bonus |-> 40,
     time_penalty |-> -1]

RewardConfigs == {ScenarioRewards, OtherRewards}

\* the second argument of info.get
Default(field) ==
    IF field \in {"hit_target", "level_complete"} THEN FALSE ELSE 0

\* info.get(field, default)
Get(i, field) == IF i[field] = <<>> THEN Default(field) ELSE i[field][1]

HitTerm(i, cfg) == IF Get(i, "hit_target") THEN cfg.hit_target ELSE cfg.miss_penalty

DamageTerm(i, cfg) == Get(i, "damage") * cfg.structural_damage

PigTerm(i, cfg) == Get(i, "pigs_destroyed") * cfg.pig_destroyed

EfficiencyTerm(i, cfg) ==
    IF Get(i, "birds_used") < 3
    THEN cfg.efficiency_bonus * (3 - Get(i, "birds_used"))
    ELSE 0

TimeTerm(i, cfg) == Get(i, "time_taken") * cfg.time_penalty

\* compute_reward that pays the efficiency bonus on unfinished levels too
ComputeRewardBonusAlways(i, cfg) ==
    HitTerm(i, cfg) + DamageTerm(i, cfg) + PigTerm(i, cfg)
        + (IF Get(i, "level_complete") THEN cfg.level_complete ELSE 0)
        + EfficiencyTerm(i, cfg) + TimeTerm(i, cfg)

\* compute_reward that reads the missing fields of a finished level as a miss
ComputeRewardStrictFields(i, cfg) ==
    (IF i.hit_target = <<>> THEN 0 ELSE HitTerm(i, cfg))
        + DamageTerm(i, cfg) + PigTerm(i, cfg)
        + (IF Get(i, "level_complete")
           THEN cfg.level_complete
                    + (IF i.birds_used = <<>> THEN 0 ELSE EfficiencyTerm(i, cfg))
           ELSE 0)
        + TimeTerm(i, cfg)

\* compute_reward that adds the rewards of the episodes so far
ComputeRewardRunning(i, cfg) ==
    HitTerm(i, cfg) + DamageTerm(i, cfg) + PigTerm(i, cfg)
        + (IF Get(i, "level_complete")
           THEN cfg.level_complete + EfficiencyTerm(i, cfg)
           ELSE 0)
        + TimeTerm(i, cfg) + SeqSum(episode_rewards)

ComputeReward(i, cfg) ==
    HitTerm(i, cfg) + DamageTerm(i, cfg) + PigTerm(i, cfg)
        + (IF Get(i, "level_complete")
           THEN cfg.level_complete + EfficiencyTerm(i, cfg)
           ELSE 0)
        + TimeTerm(i, cfg)

\* what compute_reward may not change
TrainerState == <<info, rewards, buffer, exploration_rate, episode_rewards>>

InitReward ==
    /\ info \in InfoMaps
    /\ rewards \in RewardConfigs
    /\ reward = <<>>
    /\ firstReward = <<>>
    /\ rcalls = 0
    /\ rlast = <<>>
    /\ Created([exploration_rate_start |-> One, exploration_rate_end |-> <<1, 4>>,
                exploration_decay |-> <<1, 2>>, max_episodes |-> 1,
                save_frequency |-> 2])
    /\ checkpoints = {}
    /\ runs = 1
    /\ kind = "ReplayBuffer"
    /\ capacity = MaxCapacity
    /\ buffer = <<>>
    /\ priorities = <<>>
    /\ alpha = 0
    /\ beta = 0
    /\ nextId = 1
    /\ ops = 0
    /\ clears = 0
    /\ last = NoCall
    /\ LinkIdle
    /\ RunIdle

\* one call of compute_reward(info)
ComputeRewardCall ==
    /\ rcalls < MaxRewardCalls
    /\ rcalls' = rcalls + 1
    /\ UNCHANGED <<info, rewards>>
    /\ UNCHANGED notReward
    /\ reward' = <<ComputeReward(info, rewards)>>
    /\ firstReward' = IF rcalls = 0 THEN reward' ELSE firstReward
    /\ rlast' = [before |-> TrainerState, after |-> TrainerState']

\* the calls train makes around compute_reward: the experience is stored
\* and the episode ends
NextReward == ComputeRewardCall \/ Add \/ TrainBegin \/ EpisodeEnd

SpecReward == InitReward /\ [][NextReward]_vars

\* the sum the reward is specified to be
SpecifiedReward(i, cfg) ==
    LET hit      == IF i.hit_target = <<TRUE>> THEN cfg.hit_target ELSE cfg.miss_penalty
        damage   == IF i.damage = <<>> THEN 0 ELSE i.damage[1]
        pigs     == IF i.pigs_destroyed = <<>> THEN 0 ELSE i.pigs_destroyed[1]
        birds    == IF i.birds_used = <<>> THEN 0 ELSE i.birds_used[1]
        time     == IF i.time_taken = <<>> THEN 0 ELSE i.time_taken[1]
        complete == IF i.level_complete = <<TRUE>>
                    THEN cfg.level_complete
                             + (IF birds < 3 THEN cfg.efficiency_bonus * (3 - birds) ELSE 0)
                    ELSE 0
    IN  hit + damage * cfg.structural_damage + pigs * cfg.pig_destroyed + complete
            + time * cfg.time_penalty

\* C11: compute_reward(info) is the sum of the hit or miss term, damage times
\* structural_damage, pigs_destroyed times pig_destroyed, on a completed
\* level level_complete plus efficiency_bonus * (3 - birds_used) when fewer
\* than three birds were used, and time_taken times time_penalty; the
\* scenario's configuration and info map give 165.
C11_RewardIsTheSum ==
    rcalls >= 1 =>
        /\ reward = <<SpecifiedReward(info, rewards)>>
        /\ (info = ScenarioInfo /\ rewards = ScenarioRewards) => reward = <<1650>>

\* the scenario's call
C11_Witness ==
    /\ rcalls >= 1
    /\ info = ScenarioInfo
    /\ rewards = ScenarioRewards
    /\ reward = <<1650>>

\* the info map with an absent field set to zero, or to false
WithZero(i, field) == [i EXCEPT ![field] = <<Default(field)>>]

\* C12: the reward of an info map that omits a field is the reward of the
\* same map with that field set to zero (false for hit_target and
\* level_complete).
C12_OmittedIsZero ==
    rcalls >= 1 =>
        \A field \in InfoFields :
            info[field] = <<>> => reward = <<ComputeReward(WithZero(info, field), rewards)>>

\* a completed level reported without hit_target and without birds_used
C12_Witness ==
    /\ rcalls >= 1
    /\ info.level_complete = <<TRUE>>
    /\ info.hit_target = <<>>
    /\ info.birds_used = <<>>
    /\ info.damage = <<50>>
    /\ reward = <<ComputeReward(info, rewards)>>

----------------------------------------------------------------------------
(* UnityEnvironmentWrapper: the wire format *)

\* Python values are tagged: Str, Num, Bool, List of values, Dict of
\* <<key, value>> pairs in insertion order.  The JSON text of a value is a
\* sequence of bytes in which every lexeme (a brace, a bracket, a string, a
\* number, true, false) is one byte; separators and white space are left
\* out.  A frame is the four bytes of the payload length, most significant
\* first, then the payload.

Str(x) == [k |-> "str", v |-> x]
Num(x) == [k |-> "num", v |-> x]
Bool(x) == [k |-> "bool", v |-> x]
List(x) == [k |-> "list", v |-> x]
Dict(x) == [k |-> "dict", v |-> x]

\* the strings of the protocol; the byte of a string is its position here
Lexemes ==
    <<"type", "reset", "step", "close", "action", "angle", "force", "state", "done", "info",
      "damage", "hit_target">>

\* the bytes of the other lexemes; the byte of a number n is num + n
Sym ==
    [num |-> 100, true |-> 201, false |-> 202,
     lbrace |-> 210, rbrace |-> 211, lbracket |-> 212, rbracket |-> 213]

\* a byte that starts no lexeme
Garbage == 255

StrByte(x) == CHOOSE i \in DOMAIN Lexemes : Lexemes[i] = x

RECURSIVE Flatten(_)
Flatten(ss) == IF ss = <<>> THEN <<>> ELSE Head(ss) \o Flatten(Tail(ss))

\* json.dumps(value).encode('utf-8')
RECURSIVE Dumps(_)
Dumps(x) ==
    IF x.k = "str" THEN <<StrByte(x.v)>>
    ELSE IF x.k = "num" THEN <<Sym.num + x.v>>
    ELSE IF x.k = "bool" THEN <<IF x.v THEN Sym.true ELSE Sym.false>>
    ELSE IF x.k = "list"
    THEN <<Sym.lbracket>> \o Flatten([i \in DOMAIN x.v |-> Dumps(x.v[i])]) \o <<Sym.rbracket>>
    ELSE <<Sym.lbrace>>
             \o Flatten([i \in DOMAIN x.v |-> <<StrByte(x.v[i][1])>> \o Dumps(x.v[i][2])])
             \o <<Sym.rbrace>>

NoParse == [ok |-> FALSE, val |-> <<>>, rest |-> <<>>]

Parsed(x, rest) == [ok |-> TRUE, val |-> x, rest |-> rest]

\* the JSON parser: one value at the head of the bytes b
RECURSIVE ParseValue(_), ParseMembers(_, _), ParseElements(_, _)
ParseValue(b) ==
    IF b = <<>> THEN NoParse
    ELSE IF Head(b) = Sym.lbrace THEN ParseMembers(Tail(b), <<>>)
    ELSE IF Head(b) = Sym.lbracket THEN ParseElements(Tail(b), <<>>)
    ELSE IF Head(b) \in DOMAIN Lexemes THEN Parsed(Str(Lexemes[Head(b)]), Tail(b))
    ELSE IF Head(b) = Sym.true THEN Parsed(Bool(TRUE), Tail(b))
    ELSE IF Head(b) = Sym.false THEN Parsed(Bool(FALSE), Tail(b))
    ELSE IF Head(b) >= Sym.num /\ Head(b) < Sym.true THEN Parsed(Num(Head(b) - Sym.num), Tail(b))
    ELSE NoParse

ParseMembers(b, acc) ==
    IF b = <<>> THEN NoParse
    ELSE IF Head(b) = Sym.rbrace THEN Parsed(Dict(acc), Tail(b))
    ELSE IF Head(b) \notin DOMAIN Lexemes THEN NoParse
    ELSE LET r == ParseValue(Tail(b))
         IN  IF r.ok
             THEN ParseMembers(r.rest, Append(acc, <<Lexemes[Head(b)], r.val>>))
             ELSE NoParse

ParseElements(b, acc) ==
    IF b = <<>> THEN NoParse
    ELSE IF Head(b) = Sym.rbracket THEN Parsed(List(acc), Tail(b))
    ELSE LET r == ParseValue(b)
         IN  IF r.ok THEN ParseElements(r.rest, Append(acc, r.val)) ELSE NoParse

\* json.loads(message.decode('utf-8')): the whole text is one value
Loads(b) ==
    LET r == ParseValue(b)
    IN  IF r.ok /\ r.rest = <<>> THEN r ELSE NoParse

\* struct.pack('<I', n), least significant byte first
PackLittleEndian(n) ==
    <<n % 256, (n \div 256) % 256, (n \div 65536) % 256, (n \div 16777216) % 256>>

\* struct.pack('!I', n)
Pack(n) ==
    <<(n \div 16777216) % 256, (n \div 65536) % 256, (n \div 256) % 256, n % 256>>

\* struct.unpack('!I', b)[0] for four bytes b
Unpack(b) == ((b[1] * 256 + b[2]) * 256 + b[3]) * 256 + b[4]

\* what send_data writes for a message
Frame(message) == LET payload == Dumps(message) IN Pack(Len(payload)) \o payload

ResetCommand == Dict(<< <<"type", Str("reset")>> >>)

StepCommand(angle, force) ==
    Dict(<< <<"type", Str("step")>>,
            <<"action", Dict(<< <<"angle", Num(angle)>>, <<"force", Num(force)>> >>)>> >>)

CloseCommand == Dict(<< <<"type", Str("close")>> >>)

\* the simulator's answers: to reset, and to step
StateResponse == Dict(<< <<"state", List(<<Num(1), Num(2)>>)>> >>)

StepResponse ==
    Dict(<< <<"state", List(<<Num(3)>>)>>, <<"done", Bool(TRUE)>>,
            <<"info", Dict(<< <<"damage", Num(50)>> >>)>> >>)

\* the messages the simulator frames: its answers, and a command echoed back
PeerMessages == {StateResponse, StepResponse, StepCommand(45, 10)}

\* a frame whose payload is not JSON
BadFrame == Pack(2) \o <<Sym.lbrace, Garbage>>

----------------------------------------------------------------------------
(* UnityEnvironmentWrapper: connect, send_data, receive_data, reset, step, close *)

\* A call is one action and runs to its return or its raise; a call whose
\* recv would wait for bytes the simulator has not written yet is taken once
\* they are there.  The simulator writes whole frames, a frame that is not
\* JSON, or the first bytes of a frame before it closes its end.

MaxLinkSteps == 5

\* the most bytes one recv returns during a call: the transport hands the
\* stream over in pieces of this size
Segments == {2, 4096}

\* how many bytes of a frame the simulator wrote before it closed
Truncations == {2, 4, 6}

\* the arguments of step
Actions == {<<45, 10>>}

\* socket.recv(n): no bytes only at the end of the stream
Recv(stream, n, seg) == SubSeq(stream, 1, Min(Min(n, seg), Len(stream)))

Drop(stream, n) == SubSeq(stream, n + 1, Len(stream))

\* the length of four bytes; lengths of 2^31 and more, which no stream of
\* the model holds, read as 2^31 - 1
Length(b) == IF b[1] >= 128 THEN 2147483647 ELSE Unpack(b)

\* a payload loop that stops at the end of the stream with what it has
RECURSIVE ReadPayloadUntilEnd(_, _, _, _, _)
ReadPayloadUntilEnd(stream, eof, need, seg, got) ==
    IF Len(got) >= need THEN [state |-> "read", bytes |-> got]
    ELSE LET chunk == Recv(stream, Min(need - Len(got), 4096), seg)
         IN  IF chunk = <<>>
             THEN [state |-> IF eof THEN "read" ELSE "waiting", bytes |-> got]
             ELSE ReadPayloadUntilEnd(Drop(stream, Len(chunk)), eof, need, seg, got \o chunk)

\* the while loop of receive_data: need bytes, at most 4096 per recv
RECURSIVE ReadPayload(_, _, _, _, _)
ReadPayload(stream, eof, need, seg, got) ==
    IF Len(got) >= need THEN [state |-> "read", bytes |-> got]
    ELSE LET chunk == Recv(stream, Min(need - Len(got), 4096), seg)
         IN  IF chunk = <<>>
             THEN [state |-> IF eof THEN "closed" ELSE "waiting", bytes |-> got]
             ELSE ReadPayload(Drop(stream, Len(chunk)), eof, need, seg, got \o chunk)

Raised(err, read) == [state |-> "raised", err |-> err, msg |-> <<>>, read |-> read]

\* receive_data on the socket sock with the unread bytes stream; eof says
\* the simulator closed its end.  state is "returned", "raised" or "waiting".
ReceiveOutcome(sock, stream, eof, seg) ==
    IF sock # "open" THEN Raised("OSError", 0)
    ELSE IF stream = <<>> /\ ~eof THEN [state |-> "waiting"]
    ELSE LET length_data == Recv(stream, 4, seg)
         IN  IF length_data = <<>> THEN Raised("ConnectionError", 0)
             ELSE IF Len(length_data) < 4 THEN Raised("struct.error", Len(length_data))
             ELSE LET message_length == Length(length_data)
                      body == ReadPayload(Drop(stream, 4), eof, message_length, seg, <<>>)
                      data == Loads(body.bytes)
                  IN  IF body.state = "waiting" THEN [state |-> "waiting"]
                      ELSE IF body.state = "closed"
                      THEN Raised("ConnectionError", 4 + Len(body.bytes))
                      ELSE IF ~data.ok
                      THEN Raised("JSONDecodeError", 4 + Len(body.bytes))
                      ELSE [state |-> "returned", err |-> "", msg |-> data.val,
                            read |-> 4 + Len(body.bytes)]

\* send_data on the socket sock; fault says the transport fails the write
SendRaises(sock, fault) == sock # "open" \/ fault

\* dict lookup
Has(d, key) == d.k = "dict" /\ \E i \in DOMAIN d.v : d.v[i][1] = key

Lookup(d, key) == d.v[CHOOSE i \in DOMAIN d.v : d.v[i][1] = key][2]

\* the nearest float32 of an integer below 2^25 in size, ties to even
Float32(x) ==
    IF Abs(x) <= 16777216 \/ x % 2 = 0 THEN x
    ELSE IF (x \div 2) % 2 = 0 THEN x - 1 ELSE x + 1

\* np.array(state, dtype=np.float32) of a list of numbers
Float32Array(arr) == List([i \in DOMAIN arr.v |-> Num(Float32(arr.v[i].v))])

\* the keys reset and step read from the response
KeysRead(op) == IF op = "reset" THEN {"state"} ELSE {"state", "done", "info"}

\* what reset and step return from the response
ResetReturn(response) == Float32Array(Lookup(response, "state"))

StepReturn(response) ==
    [next_state |-> Float32Array(Lookup(response, "state")),
     reward     |-> 0,
     done       |-> Lookup(response, "done"),
     info       |-> Lookup(response, "info")]

NoLinkCall ==
    [op |-> "none", ok |-> TRUE, err |-> "", ret |-> <<>>, read |-> 0, wrote |-> 0,
     sends |-> 0, sock |-> "none", conn |-> FALSE, stream |-> <<>>, eof |-> FALSE,
     seg |-> 0, unparsed |-> FALSE, failed |-> FALSE]

\* the record of a call: read and wrote count the bytes it took from the
\* stream and the frames it wrote, sends the send_data calls it made;
\* unparsed says that a receive_data of this connection, this call or an
\* earlier one, raised on a payload it could not parse
LinkCalled(op, ok, err, ret, read, wrote, sends, seg) ==
    [op |-> op, ok |-> ok, err |-> err, ret |-> ret, read |-> read, wrote |-> wrote,
     sends |-> sends, sock |-> socket, conn |-> connected, stream |-> inbox,
     eof |-> peerClosed, seg |-> seg,
     unparsed |-> llast.unparsed \/ err = "JSONDecodeError",
     failed |-> llast.unparsed]

InitLink ==
    /\ socket = "none"
    /\ connected = FALSE
    /\ inbox = <<>>
    /\ peerClosed = FALSE
    /\ framesOut = 0
    /\ steps = 0
    /\ llast = NoLinkCall
    /\ StoreIdle
    /\ RewardIdle
    /\ TrainerIdle
    /\ RunIdle

\* connect(): the simulator connects, or accept times out
ConnectCall ==
    \/ /\ socket' = "open"
       /\ connected' = TRUE
       /\ inbox' = <<>>
       /\ peerClosed' = FALSE
       /\ framesOut' = 0
       /\ llast' = [LinkCalled("connect", TRUE, "", <<>>, 0, 0, 0, 0)
                       EXCEPT !.unparsed = FALSE]
    \/ /\ llast' = LinkCalled("connect", FALSE, "ConnectionError", <<>>, 0, 0, 0, 0)
       /\ UNCHANGED <<socket, connected, inbox, peerClosed, framesOut>>

Connect ==
    /\ steps < MaxLinkSteps
    /\ steps' = steps + 1
    /\ ConnectCall
    /\ UNCHANGED notLink

\* receive_data()
ReceiveData ==
    /\ steps < MaxLinkSteps
    /\ socket # "none"
    /\ \E seg \in Segments :
          LET out == ReceiveOutcome(socket, inbox, peerClosed, seg)
          IN  /\ out.state # "waiting"
              /\ inbox' = Drop(inbox, out.read)
              /\ connected' = IF out.state = "raised" THEN FALSE ELSE connected
              /\ llast' = LinkCalled("receive_data", out.state = "returned", out.err,
                                     out.msg, out.read, 0, 0, seg)
    /\ steps' = steps + 1
    /\ UNCHANGED <<socket, peerClosed, framesOut>>
    /\ UNCHANGED notLink

\* a request and its response: send_data(command), then receive_data(),
\* then the fields of the response
Exchange(op, command) ==
    \E fault \in BOOLEAN, seg \in Segments :
        IF SendRaises(socket, fault)
        THEN /\ connected' = FALSE
             /\ llast' = LinkCalled(op, FALSE, "OSError", <<>>, 0, 0, 1, seg)
             /\ UNCHANGED <<inbox, framesOut>>
        ELSE LET out == ReceiveOutcome(socket, inbox, peerClosed, seg)
             IN  /\ out.state # "waiting"
                 /\ framesOut' = framesOut + 1
                 /\ inbox' = Drop(inbox, out.read)
                 /\ IF out.state = "raised"
                    THEN /\ connected' = FALSE
                         /\ llast' = LinkCalled(op, FALSE, out.err, <<>>, out.read, 1, 1, seg)
                    ELSE IF \E key \in KeysRead(op) : ~Has(out.msg, key)
                    THEN /\ UNCHANGED connected
                         /\ llast' = LinkCalled(op, FALSE, "KeyError", <<>>, out.read, 1, 1, seg)
                    ELSE /\ UNCHANGED connected
                         /\ llast' = LinkCalled(op, TRUE, "",
                                                IF op = "reset" THEN ResetReturn(out.msg)
                                                ELSE StepReturn(out.msg),
                                                out.read, 1, 1, seg)

\* reset()
Reset ==
    /\ steps < MaxLinkSteps
    /\ socket # "none"
    /\ Exchange("reset", ResetCommand)
    /\ steps' = steps + 1
    /\ UNCHANGED <<socket, peerClosed>>
    /\ UNCHANGED notLink

\* step(action)
Step ==
    /\ steps < MaxLinkSteps
    /\ socket # "none"
    /\ \E action \in Actions : Exchange("step", StepCommand(action[1], action[2]))
    /\ steps' = steps + 1
    /\ UNCHANGED <<socket, peerClosed>>
    /\ UNCHANGED notLink

\* a close that lets the error of its send out and then keeps the socket
CloseOutcomePropagates(sock, sent) ==
    IF sent THEN [socket |-> "closed", connected |-> FALSE, ok |-> TRUE]
    ELSE [socket |-> sock, connected |-> FALSE, ok |-> FALSE]

\* close() on a link that has a socket, after the send of the close command
CloseOutcome(sock, sent) == [socket |-> "closed", connected |-> FALSE, ok |-> TRUE]

\* close(), also as __del__ calls it
CloseCall ==
    /\ IF socket = "none"
       THEN /\ llast' = LinkCalled("close", TRUE, "", <<>>, 0, 0, 0, 0)
            /\ UNCHANGED <<socket, connected, framesOut>>
       ELSE \E fault \in BOOLEAN :
               LET sent == ~SendRaises(socket, fault)
                   out  == CloseOutcome(socket, sent)
               IN  /\ framesOut' = IF sent THEN framesOut + 1 ELSE framesOut
                   /\ socket' = out.socket
                   /\ connected' = out.connected
                   /\ llast' = LinkCalled("close", out.ok, IF out.ok THEN "" ELSE "OSError",
                                          <<>>, 0, IF sent THEN 1 ELSE 0, 1, 0)
    /\ UNCHANGED <<inbox, peerClosed>>

Close ==
    /\ steps < MaxLinkSteps
    /\ steps' = steps + 1
    /\ CloseCall
    /\ UNCHANGED notLink

\* the simulator writes a whole frame
PeerSend ==
    /\ steps < MaxLinkSteps
    /\ socket = "open"
    /\ ~peerClosed
    /\ \E m \in PeerMessages : inbox' = inbox \o Frame(m)
    /\ steps' = steps + 1
    /\ UNCHANGED <<socket, connected, peerClosed, framesOut, llast>>
    /\ UNCHANGED notLink

\* the simulator writes a frame that is not JSON
PeerSendBad ==
    /\ steps < MaxLinkSteps
    /\ socket = "open"
    /\ ~peerClosed
    /\ inbox' = inbox \o BadFrame
    /\ steps' = steps + 1
    /\ UNCHANGED <<socket, connected, peerClosed, framesOut, llast>>
    /\ UNCHANGED notLink

\* the simulator closes its end, after the first bytes of a frame or after none
PeerClose ==
    /\ steps < MaxLinkSteps
    /\ socket = "open"
    /\ ~peerClosed
    /\ \E k \in Truncations \cup {0} : inbox' = inbox \o SubSeq(Frame(StateResponse), 1, k)
    /\ peerClosed' = TRUE
    /\ steps' = steps + 1
    /\ UNCHANGED <<socket, connected, framesOut, llast>>
    /\ UNCHANGED notLink

NextLink ==
    Connect \/ ReceiveData \/ Reset \/ Step \/ Close \/ PeerSend \/ PeerSendBad \/ PeerClose

SpecLink == InitLink /\ [][NextLink]_vars

\* the state of the link
LinkState(sock, conn) ==
    IF conn THEN "Connected" ELSE IF sock = "none" THEN "Disconnected" ELSE "Closed"

IsPrefix(p, s) == Len(p) <= Len(s) /\ SubSeq(s, 1, Len(p)) = p

\* C15: receive_data consumes exactly one frame however the transport
\* fragments it: with a whole frame at the head of the stream it returns
\* after reading the 4 bytes of the prefix and the L bytes of the payload,
\* whatever the size of the pieces the reads return.
C15_ConsumesOneFrame ==
    \A m \in PeerMessages :
        (/\ llast.op = "receive_data"
         /\ llast.sock = "open"
         /\ IsPrefix(Frame(m), llast.stream))
            => /\ llast.ok
               /\ llast.read = 4 + Len(Dumps(m))

\* C16: a message framed as send_data frames it and then read by
\* receive_data comes back as the original message; the state, the done
\* flag and the info map of a step response come back unchanged from step.
C16_RoundTrip ==
    \A m \in PeerMessages :
        /\ (/\ llast.op = "receive_data"
            /\ llast.sock = "open"
            /\ IsPrefix(Frame(m), llast.stream))
               => /\ llast.ok
                  /\ llast.ret = m
        /\ (/\ llast.op = "step"
            /\ llast.wrote = 1
            /\ m = StepResponse
            /\ IsPrefix(Frame(m), llast.stream))
               => /\ llast.ok
                  /\ llast.ret.next_state = List(<<Num(3)>>)
                  /\ llast.ret.done = Bool(TRUE)
                  /\ llast.ret.info = Dict(<< <<"damage", Num(50)>> >>)

\* the round trip of a frame whose prefix arrives in one read
RoundTripOfWholePrefix ==
    \A m \in PeerMessages :
        (/\ llast.op = "receive_data"
         /\ llast.sock = "open"
         /\ llast.seg >= 4
         /\ IsPrefix(Frame(m), llast.stream))
            => /\ llast.ok
               /\ llast.ret = m
               /\ llast.read = Len(Frame(m))

\* a read of the last receive_data returned no bytes: the stream was at its
\* end where the prefix starts, or the prefix came whole and the stream ended
\* before the payload did
ZeroRead ==
    /\ llast.op = "receive_data"
    /\ llast.sock = "open"
    /\ llast.eof
    /\ \/ llast.stream = <<>>
       \/ /\ Len(llast.stream) >= 4
          /\ llast.seg >= 4
          /\ Len(llast.stream) - 4 < Length(SubSeq(llast.stream, 1, 4))

\* C17: when a read returns zero bytes before the frame is complete, on the
\* prefix or within the payload, receive_data raises the connection-closed
\* error, returns no message and leaves the link marked not connected.
C17_ZeroReadFails ==
    ZeroRead =>
        /\ ~llast.ok
        /\ llast.err = "ConnectionError"
        /\ llast.ret = <<>>
        /\ ~connected

\* the simulator closed two bytes into a payload
C17_Witness ==
    /\ ZeroRead
    /\ Len(llast.stream) = 6
    /\ llast.read = 6
    /\ llast.conn

\* C18: after receive_data raised on a payload it could not parse the link
\* is marked not connected, and a later reset or step on this connection
\* neither writes nor reads a frame.
C18_NoResync ==
    /\ llast.err = "JSONDecodeError" => ~connected
    /\ (llast.op \in {"reset", "step"} /\ llast.failed)
           => /\ llast.wrote = 0
              /\ llast.read = 0

\* C19: the link moves only forward along Disconnected, (Listening,)
\* Connected, Closed: a call leaves a Closed link Closed and a Connected link
\* Connected or Closed; close on a link that has a socket, and an error of
\* send_data or receive_data, leave it Closed.
C19_OneWay ==
    LET before == LinkState(llast.sock, llast.conn)
        now    == LinkState(socket, connected)
    IN  llast.op # "none" =>
            /\ before = "Closed" => now = "Closed"
            /\ before = "Connected" => now \in {"Connected", "Closed"}
            /\ (llast.op = "close" /\ llast.sock # "none") => now = "Closed"
            /\ (~llast.ok /\ llast.op \in {"receive_data", "reset", "step"}
                    /\ llast.err # "KeyError") => now = "Closed"

\* C20: close() on a link that has a socket, connected, failed or closed
\* before, makes one send of the close command, returns without raising
\* whether or not that send raised, and leaves the socket closed and the link
\* marked not connected.
C20_CloseReleases ==
    (llast.op = "close" /\ llast.sock # "none") =>
        /\ llast.sends = 1
        /\ llast.ok
        /\ socket = "closed"
        /\ ~connected

\* close() on a link that was closed before: its send raised
C20_Witness ==
    /\ llast.op = "close"
    /\ llast.sock = "closed"
    /\ llast.wrote = 0
    /\ llast.ok
    /\ socket = "closed"

----------------------------------------------------------------------------
(* A training run: an entry point, train() and the simulator *)

\* One process: the entry point constructs the trainer and calls train(),
\* which constructs the link, runs the episodes against the simulator, saves
\* the final checkpoint and closes the link.  pc is the statement the
\* process is at; an iteration of the step loop is one action.  The call of
\* reset or step is taken once the simulator's answer is there.

\* the most steps of an episode: the simulator ends an episode of this length
MaxSteps == 2

\* the most episodes of a run
MaxRunEpisodes == 2

Entries == {"train_agent", "example_train"}

\* the groups of the configuration file that __init__ reads
StartupGroups == {"network", "training", "optimization", "replay_buffer", "logging"}

\* the groups that are first read later: by the wrapper's __init__, by
\* select_action when it explores, by compute_reward
LateGroups == {"unity", "environment", "rewards"}

\* config['training'] of a run
RunConfigs ==
    [exploration_rate_start : {One},
     exploration_rate_end   : {<<1, 4>>},
     exploration_decay      : {<<1, 2>>},
     max_episodes           : 0..MaxRunEpisodes,
     save_frequency         : {1, 2},
     update_frequency       : {1, 2},
     batch_size             : {2}]

\* the configuration of the runs of a file that lacks a group
BaseConfig ==
    [exploration_rate_start |-> One, exploration_rate_end |-> <<1, 4>>,
     exploration_decay |-> <<1, 2>>, max_episodes |-> 1, save_frequency |-> 1,
     update_frequency |-> 1, batch_size |-> 2]

\* config['replay_buffer']['min_size'] and ['capacity']
MinSizes == {1, 2}
Capacities == {1, 2}

\* the statements of train at which the process can be interrupted
RunningPcs == {"reset", "step", "decay", "record", "save", "final", "close"}

\* the errors of the link that reset and step let out
TransportErrors == {"OSError", "ConnectionError", "struct.error", "JSONDecodeError"}

\* the simulator's answer to a step: the next state, the done flag and the
\* info map of the shot
RunStepResponse(done) ==
    Dict(<< <<"state", List(<<Num(IF done THEN 4 ELSE 3)>>)>>, <<"done", Bool(done)>>,
            <<"info", IF done
                      THEN Dict(<< <<"hit_target", Bool(TRUE)>>, <<"damage", Num(50)>> >>)
                      ELSE Dict(<< <<"damage", Num(20)>> >>)>> >>)

\* the info map of a response as compute_reward reads it
InfoOf(d) == [f \in InfoFields |-> IF Has(d, f) THEN <<Lookup(d, f).v>> ELSE <<>>]

\* the experience train builds in a step
Experience(id, s, a, r, ret) ==
    [id |-> id, weight |-> NoWeight, state |-> s, action |-> a, reward |-> r,
     next_state |-> ret.next_state, done |-> ret.done.v, info |-> ret.info]

InitRun ==
    /\ entry \in Entries
    /\ missing \in {""} \cup StartupGroups \cup LateGroups
    /\ training \in RunConfigs
    /\ missing # "" => training = BaseConfig
    /\ min_size \in MinSizes
    /\ capacity \in Capacities
    /\ missing # "" => min_size = 1 /\ capacity = 2
    /\ pc = "init"
    /\ exc = ""
    /\ state = <<>>
    /\ episode_reward = 0
    /\ episode_length = 0
    /\ episode_lengths = <<>>
    /\ total_steps = 0
    /\ episode_data = <<>>
    /\ resets = 0
    /\ tstep = <<>>
    /\ exploration_rate = <<>>
    /\ episode_rewards = <<>>
    /\ phase = "none"
    /\ episode = 0
    /\ rates = <<>>
    /\ checkpoints = {}
    /\ runs = 1
    /\ model = 0
    /\ loaded = <<>>
    /\ kind = "ReplayBuffer"
    /\ buffer = <<>>
    /\ priorities = <<>>
    /\ alpha = 0
    /\ beta = 0
    /\ nextId = 1
    /\ ops = 0
    /\ clears = 0
    /\ last = NoCall
    /\ info = <<>>
    /\ rewards = IF missing = "rewards" THEN <<>> ELSE ScenarioRewards
    /\ reward = <<>>
    /\ firstReward = <<>>
    /\ rcalls = 0
    /\ rlast = <<>>
    /\ socket = "none"
    /\ connected = FALSE
    /\ inbox = <<>>
    /\ peerClosed = FALSE
    /\ framesOut = 0
    /\ steps = 0
    /\ llast = NoLinkCall

\* what the statements of train leave alone
config == <<entry, missing, min_size, training, capacity, rewards, runs, loaded>>
idleStore == <<kind, priorities, alpha, beta, ops, clears, last>>
idleReward == <<info, reward, firstReward, rcalls, rlast>>
idle == <<config, idleStore, idleReward, steps>>
link == <<socket, connected, inbox, peerClosed, framesOut, llast>>
locals == <<state, episode_reward, episode_length, total_steps, episode_data, resets, tstep>>
store == <<buffer, nextId, model>>
histories == <<exploration_rate, episode_rewards, episode_lengths, rates>>

\* an exception leaves the statement and goes up the stack
Raise(e) ==
    /\ exc' = e
    /\ pc' = "raise"

\* a loop that runs one episode more than max_episodes
LoopPcOneMore(e) == IF e <= training.max_episodes THEN "reset" ELSE "final"

\* the statement that follows the end of episode e - 1
LoopPc(e) == IF e < training.max_episodes THEN "reset" ELSE "final"

\* AngryBirdsTrainer(config_path), called by the entry point outside any try
Construct ==
    /\ pc = "init"
    /\ IF missing \in StartupGroups
       THEN /\ exc' = "KeyError"
            /\ pc' = "traceback"
            /\ UNCHANGED <<exploration_rate, phase>>
       ELSE /\ exploration_rate' = training.exploration_rate_start
            /\ phase' = "created"
            /\ pc' = "train"
            /\ UNCHANGED exc
    /\ UNCHANGED <<idle, link, locals, store, episode_rewards, episode_lengths, rates,
                   episode, checkpoints>>

\* a train that tries the connection again when it failed
ConnectFailurePcRetry == "train"

\* train after the wrapper's constructor raised: ConnectionError goes up
ConnectFailurePc == "raise"

\* train: env = UnityEnvironmentWrapper(self.config).  The constructor reads
\* config['unity'] and calls connect(); whatever it raises is raised again
\* as ConnectionError.
ConnectEnv ==
    /\ pc = "train"
    /\ phase' = "training"
    /\ rates' = <<exploration_rate>>
    /\ IF missing = "unity"
       THEN /\ Raise("ConnectionError")
            /\ UNCHANGED link
       ELSE /\ ConnectCall
            /\ IF llast'.ok
               THEN /\ pc' = LoopPc(0)
                    /\ UNCHANGED exc
               ELSE /\ exc' = "ConnectionError"
                    /\ pc' = ConnectFailurePc
    /\ UNCHANGED <<idle, locals, store, exploration_rate, episode_rewards, episode_lengths,
                   episode, checkpoints>>

\* what the simulator answers to the command the process is waiting on: the
\* state to a reset, the outcome of the shot to a step (the last step of an
\* episode of MaxSteps is done), or a payload that is not JSON, or to a step
\* an answer without 'done' and 'info'
Replies(op, length) ==
    IF op = "reset" THEN {Frame(StateResponse), BadFrame}
    ELSE {Frame(RunStepResponse(done)) :
              done \in IF length + 1 >= MaxSteps THEN {TRUE} ELSE BOOLEAN}
         \cup {Frame(StateResponse)}

\* the simulator answers the command of the call that is waiting
SimulatorReplies ==
    /\ pc \in {"reset", "step"}
    /\ socket = "open"
    /\ ~peerClosed
    /\ inbox = <<>>
    /\ \E bytes \in Replies(pc, episode_length) : inbox' = bytes
    /\ UNCHANGED <<socket, connected, peerClosed, framesOut, llast>>
    /\ UNCHANGED <<idle, locals, store, histories, phase, episode, checkpoints, pc, exc>>

\* the simulator closes its end instead of answering
SimulatorCloses ==
    /\ pc \in {"reset", "step"}
    /\ socket = "open"
    /\ ~peerClosed
    /\ inbox = <<>>
    /\ peerClosed' = TRUE
    /\ UNCHANGED <<socket, connected, inbox, framesOut, llast>>
    /\ UNCHANGED <<idle, locals, store, histories, phase, episode, checkpoints, pc, exc>>

\* train: state = env.reset(), and the locals of the episode
RunReset ==
    /\ pc = "reset"
    /\ Exchange("reset", ResetCommand)
    /\ resets' = resets + 1
    /\ IF llast'.ok
       THEN /\ state' = llast'.ret
            /\ episode_reward' = 0
            /\ episode_length' = 0
            /\ episode_data' = <<>>
            /\ pc' = "step"
            /\ UNCHANGED exc
       ELSE /\ Raise(llast'.err)
            /\ UNCHANGED <<state, episode_reward, episode_length, episode_data>>
    /\ UNCHANGED <<socket, peerClosed, total_steps, tstep>>
    /\ UNCHANGED <<idle, store, histories, phase, episode, checkpoints>>

\* select_action explores when random() < exploration_rate
Explores == IF exploration_rate = One THEN {TRUE} ELSE BOOLEAN

\* a train that stores the reward step returned
StoredRewardFromStep(ret, computed) == ret.reward

\* the reward of the experience: compute_reward(info); the second value
\* step returned is dropped
StoredReward(ret, computed) == computed

\* a train that gates the update on the steps of all episodes
UpdateCounterGlobal(length, steps_so_far) == steps_so_far

\* the counter that gates the update: episode_length
UpdateCounter(length, steps_so_far) == length

\* a train that updates only when the store is larger than min_size
UpdateDueAboveMinSize(size, counter, smallest, frequency) ==
    size > smallest /\ counter % frequency = 0

\* the two tests before sample and update_policy
UpdateDue(size, counter, smallest, frequency) ==
    size >= smallest /\ counter % frequency = 0

\* a train that samples before it adds the experience
SampledFromBeforeAdd(before, after) == before

\* the store that sample draws from: the store after replay_buffer.add
SampledFrom(before, after) == after

\* a train that keeps the state of the start of the episode
CarriedStateNotAdvanced(s, ret) == s

\* state = next_state at the end of an iteration
CarriedState(s, ret) == ret.next_state

\* one iteration of the step loop of train: select_action, env.step,
\* compute_reward, replay_buffer.add, the episode's sums, and sample and
\* update_policy when they are due
TrainStep ==
    /\ pc = "step"
    /\ \E action \in Actions, explore \in Explores :
          IF explore /\ missing = "environment"
          THEN /\ Raise("KeyError")
               /\ UNCHANGED <<link, locals, store>>
          ELSE /\ Exchange("step", StepCommand(action[1], action[2]))
               /\ UNCHANGED <<socket, peerClosed>>
               /\ IF ~llast'.ok
                  THEN /\ Raise(llast'.err)
                       /\ UNCHANGED <<locals, store>>
                  ELSE IF missing = "rewards"
                  THEN /\ Raise("KeyError")
                       /\ UNCHANGED <<locals, store>>
                  ELSE LET ret        == llast'.ret
                           i          == InfoOf(ret.info)
                           computed   == ComputeReward(i, rewards)
                           r          == StoredReward(ret, computed)
                           experience == Experience(nextId, state, action, r, ret)
                           after      == BufferAfterAdd(buffer, experience, capacity)
                           length     == episode_length + 1
                           due        == UpdateDue(Len(after),
                                                   UpdateCounter(length, total_steps + 1),
                                                   min_size, training.update_frequency)
                           population == SampledFrom(buffer, after)
                       IN  /\ buffer' = after
                           /\ nextId' = nextId + 1
                           /\ episode_reward' = episode_reward + r
                           /\ episode_length' = length
                           /\ state' = CarriedState(state, ret)
                           /\ total_steps' = total_steps + 1
                           /\ episode_data' = Append(episode_data, experience)
                           /\ UNCHANGED resets
                           /\ model' = IF due THEN model + 1 ELSE model
                           /\ tstep' = [episode    |-> episode,
                                        state      |-> state,
                                        action     |-> action,
                                        returned   |-> ret,
                                        computed   |-> computed,
                                        experience |-> experience,
                                        before     |-> buffer,
                                        size       |-> Len(after),
                                        length     |-> length,
                                        total      |-> total_steps + 1,
                                        updates    |-> IF due THEN 1 ELSE 0,
                                        population |-> IF due THEN population ELSE <<>>,
                                        batch      |-> IF due
                                                       THEN SampleSize(training.batch_size,
                                                                       Len(population))
                                                       ELSE 0]
                           /\ pc' = IF ret.done.v THEN "decay" ELSE "step"
                           /\ UNCHANGED exc
    /\ UNCHANGED <<idle, histories, phase, episode, checkpoints>>

\* train at the end of an episode: the exploration rate decays
Decay ==
    /\ pc = "decay"
    /\ exploration_rate' = Decayed(exploration_rate, training)
    /\ rates' = Append(rates, exploration_rate')
    /\ pc' = "record"
    /\ UNCHANGED <<idle, link, locals, store, episode_rewards, episode_lengths, phase,
                   episode, checkpoints, exc>>

\* train at the end of an episode: the episode's sums go to the histories
Record ==
    /\ pc = "record"
    /\ episode_rewards' = Append(episode_rewards, episode_reward)
    /\ episode_lengths' = Append(episode_lengths, episode_length)
    /\ pc' = "save"
    /\ UNCHANGED <<idle, link, locals, store, exploration_rate, rates, phase, episode,
                   checkpoints, exc>>

\* a train that saves after every save_frequency-th episode, counted from one
SaveDueCountedFromOne(e, frequency) == (e + 1) % frequency = 0

\* the test before the periodic save_model(episode)
SaveDue(e, frequency) == e % frequency = 0

\* train at the end of an episode: the periodic checkpoint, and the loop
\* goes on to the next episode or ends
PeriodicSave ==
    /\ pc = "save"
    /\ checkpoints' = IF SaveDue(episode, training.save_frequency)
                      THEN Saved(checkpoints, episode, exploration_rate, episode_rewards,
                                 model)
                      ELSE checkpoints
    /\ episode' = episode + 1
    /\ pc' = LoopPc(episode + 1)
    /\ UNCHANGED <<idle, link, locals, store, histories, phase, exc>>

\* train after the loop: self.save_model('final')
FinalSave ==
    /\ pc = "final"
    /\ checkpoints' = Saved(checkpoints, Final, exploration_rate, episode_rewards, model)
    /\ pc' = "close"
    /\ UNCHANGED <<idle, link, locals, store, histories, phase, episode, exc>>

\* train: env.close()
CloseEnv ==
    /\ pc = "close"
    /\ CloseCall
    /\ pc' = "return"
    /\ UNCHANGED <<idle, locals, store, histories, phase, episode, checkpoints, exc>>

\* train returns to the entry point, which ends; the wrapper is released
\* and its __del__ calls close() once more
TrainReturns ==
    /\ pc = "return"
    /\ CloseCall
    /\ pc' = "exit"
    /\ phase' = "done"
    /\ UNCHANGED <<idle, locals, store, histories, episode, checkpoints, exc>>

\* the user interrupts the process while train runs: KeyboardInterrupt is
\* raised at the statement the process is at
Interrupt ==
    /\ pc \in RunningPcs
    /\ Raise("KeyboardInterrupt")
    /\ UNCHANGED <<idle, link, locals, store, histories, phase, episode, checkpoints>>

\* the exception leaves train.  main of example_train.py catches
\* KeyboardInterrupt and saves the checkpoint 'interrupted', and catches
\* Exception and prints it; train_agent.py calls train() outside any try.
Propagate ==
    /\ pc = "raise"
    /\ checkpoints' = IF entry = "example_train" /\ exc = "KeyboardInterrupt"
                      THEN Saved(checkpoints, Interrupted, exploration_rate,
                                 episode_rewards, model)
                      ELSE checkpoints
    /\ pc' = "release"
    /\ UNCHANGED <<idle, link, locals, store, histories, phase, episode, exc>>

\* the exception and the frame of train are released, or the process exits
\* on the exception nobody caught: the wrapper's __del__ calls close()
Release ==
    /\ pc = "release"
    /\ CloseCall
    /\ pc' = IF entry = "train_agent" THEN "traceback" ELSE "exit"
    /\ phase' = "done"
    /\ UNCHANGED <<idle, locals, store, histories, episode, checkpoints, exc>>

NextRun ==
    \/ Construct
    \/ ConnectEnv
    \/ SimulatorReplies
    \/ SimulatorCloses
    \/ RunReset
    \/ TrainStep
    \/ Decay
    \/ Record
    \/ PeriodicSave
    \/ FinalSave
    \/ CloseEnv
    \/ TrainReturns
    \/ Interrupt
    \/ Propagate
    \/ Release

SpecRun == InitRun /\ [][NextRun]_vars

\* the tags of the checkpoint files
Tags == {c.tag : c \in checkpoints}

\* the process has ended: on its own, or on an exception nobody caught
Stopped == pc \in {"exit", "traceback"}

\* C21: reset() and step(action) are request/response exchanges: a call that
\* returns has sent exactly one frame and then read exactly one frame, the
\* first of the stream, and close sends one frame and reads none; step
\* returns the reward 0 and train stores compute_reward of the step's info
\* map in the experience, never the value step returned.
C21_RequestResponse ==
    /\ llast.op \in {"reset", "step"} /\ llast.ok =>
          /\ llast.sends = 1
          /\ llast.wrote = 1
          /\ llast.read = 4 + Length(SubSeq(llast.stream, 1, 4))
    /\ llast.op = "close" /\ llast.sock # "none" =>
          /\ llast.sends = 1
          /\ llast.wrote <= 1
          /\ llast.read = 0
    /\ tstep # <<>> =>
          /\ tstep.returned.reward = 0
          /\ tstep.experience.reward
                 = ComputeReward(InfoOf(tstep.returned.info), rewards)

\* the second step of an episode returned: three frames were written, and
\* the reward stored is the reward of a hit, not the 0 of step
C21_Witness ==
    /\ llast.op = "step"
    /\ llast.ok
    /\ framesOut = 3
    /\ tstep # <<>>
    /\ tstep.length = 2
    /\ tstep.experience.reward = 150
    /\ tstep.experience.reward # tstep.returned.reward

\* C22: when no simulator connects within the accept window, or the port
\* cannot be bound, train() fails with ConnectionError and does not try
\* again: no frame is sent, no step runs, no experience is stored, no
\* episode is recorded and no checkpoint is written.
C22_NoPeerNoRun ==
    socket = "none" /\ phase \in {"training", "done"} =>
        /\ exc = "ConnectionError"
        /\ pc \in {"raise", "release", "exit", "traceback"}
        /\ llast.op \in {"none", "connect", "close"}
        /\ llast.sends = 0
        /\ framesOut = 0
        /\ total_steps = 0
        /\ tstep = <<>>
        /\ buffer = <<>>
        /\ episode_rewards = <<>>
        /\ episode_lengths = <<>>
        /\ checkpoints = {}

\* accept timed out under a whole configuration and the process has ended
C22_Witness ==
    /\ missing = ""
    /\ socket = "none"
    /\ phase = "done"
    /\ exc = "ConnectionError"
    /\ Stopped

\* C23: a step samples a batch and updates the policy exactly when, after
\* the step's experience is stored, the store holds at least
\* replay_buffer.min_size experiences and the step counter is a multiple of
\* training.update_frequency; a step makes at most one update.
C23_UpdateGate ==
    tstep # <<>> =>
        LET size == Min(Len(tstep.before) + 1, capacity)
        IN  /\ tstep.updates \in {0, 1}
            /\ tstep.updates = 1 <=>
                   /\ size >= min_size
                   /\ tstep.length % training.update_frequency = 0
            /\ tstep.batch = IF tstep.updates = 1 THEN Min(training.batch_size, size) ELSE 0
            /\ model <= total_steps

\* an update at the step that fills the store to min_size exactly
C23_Witness ==
    /\ tstep # <<>>
    /\ tstep.updates = 1
    /\ min_size = 2
    /\ tstep.size = 2
    /\ training.update_frequency = 2
    /\ tstep.length = 2

\* C24: a checkpoint is written after every episode whose index is a
\* multiple of save_frequency, and the checkpoint 'final' is written at the
\* end of training, after the last episode and before the link is closed,
\* whatever max_episodes is, zero included.
C24_Checkpoints ==
    /\ \A e \in 0..(episode - 1) : e % training.save_frequency = 0 <=> e \in Tags
    /\ \A c \in checkpoints :
          /\ c.tag >= 0 => c.tag < episode /\ Len(c.episode_rewards) = c.tag + 1
          /\ c.tag = Final =>
                /\ episode = training.max_episodes
                /\ Len(c.episode_rewards) = training.max_episodes
    /\ exc = "" /\ (pc \in {"close", "return", "exit"} \/ socket = "closed") => Final \in Tags

\* a run of two episodes with save_frequency 2 has ended: episode 0 and
\* 'final' are the files
C24_Witness ==
    /\ pc = "exit"
    /\ exc = ""
    /\ training.max_episodes = 2
    /\ training.save_frequency = 2
    /\ Tags = {0, Final}
    /\ socket = "closed"

\* C25: an interrupt that arrives while train runs ends the process in this
\* order: the checkpoint 'interrupted' is saved, the link is closed, the
\* process stops; the interrupt does not leave the entry point.
C25_InterruptSaves ==
    exc = "KeyboardInterrupt" =>
        /\ socket = "closed" => Interrupted \in Tags
        /\ Stopped => Interrupted \in Tags /\ socket = "closed" /\ pc = "exit"

\* C26: an error of the transport that reset or step raises during the
\* session ends the run in a graceful shutdown: a checkpoint of the
\* trainer as it is then is saved, and the link is closed, before the
\* process stops; no further episode runs.
C26_TransportErrorShutdown ==
    exc \in TransportErrors /\ socket # "none" /\ Stopped =>
        /\ \E c \in checkpoints :
              /\ c.exploration_rate = exploration_rate
              /\ c.episode_rewards = episode_rewards
              /\ c.model = model
        /\ socket = "closed"

\* C27: a configuration file that lacks a group (network, training,
\* optimization, rewards, replay_buffer, environment, unity, logging) is a
\* fatal error at startup: the process never listens for the simulator.
C27_DetectedAtStartup ==
    missing # "" => socket = "none" /\ llast = NoLinkCall

\* C29: a step stores its experience, built from the state before the
\* step, the action, compute_reward of the step's info map and what step
\* returned, before the batch is sampled, so the batch is drawn from a
\* store that holds it; every completed step adds exactly one experience,
\* and the store holds min(k, capacity) experiences after k steps.
C29_StepOrder ==
    /\ Len(buffer) = Min(total_steps, capacity)
    /\ nextId = total_steps + 1
    /\ tstep # <<>> =>
          /\ buffer = DequeAppend(tstep.before, tstep.experience, capacity)
          /\ buffer[Len(buffer)] = tstep.experience
          /\ tstep.experience.id = total_steps
          /\ tstep.experience.state = tstep.state
          /\ tstep.experience.next_state = tstep.returned.next_state
          /\ tstep.experience.reward = tstep.computed
          /\ tstep.updates = 1 =>
                \E j \in DOMAIN tstep.population : tstep.population[j] = tstep.experience

\* the third step of a run updated from a full store of capacity 2
C29_Witness ==
    /\ tstep # <<>>
    /\ total_steps = 3
    /\ capacity = 2
    /\ Len(tstep.before) = 2
    /\ tstep.updates = 1

\* C30: the counter that gates the update is the length of the episode so
\* far, zero at the start of every episode: a step updates only at a
\* multiple of update_frequency within its episode, so an episode shorter
\* than update_frequency makes no update, whatever the store holds and
\* however many steps the episodes before it took.
C30_CounterPerEpisode ==
    /\ tstep # <<>> =>
          /\ tstep.length <= tstep.total
          /\ tstep.length = tstep.total - SeqSum(SubSeq(episode_lengths, 1, tstep.episode))
          /\ tstep.updates = 1 => tstep.length % training.update_frequency = 0
          /\ tstep.length < training.update_frequency => tstep.updates = 0
    /\ pc = "step" /\ (tstep = <<>> \/ tstep.returned.done.v) => episode_length = 0

\* the second episode ends at its first step, the second step of the run,
\* with update_frequency 2 and a store that holds min_size: no update
C30_Witness ==
    /\ tstep # <<>>
    /\ tstep.episode = 1
    /\ tstep.length = 1
    /\ tstep.total = 2
    /\ training.update_frequency = 2
    /\ tstep.size >= min_size
    /\ tstep.updates = 0
    /\ tstep.returned.done.v

\* the rate after n episode ends of a run that started at rate
RECURSIVE DecayedTimes(_, _, _)
DecayedTimes(rate, n, cfg) ==
    IF n = 0 THEN rate ELSE Decayed(DecayedTimes(rate, n - 1, cfg), cfg)

\* the checkpoints train itself writes, periodic and 'final', are consistent
TrainCheckpointsConsistent ==
    \A c \in checkpoints :
        c.tag # Interrupted =>
            c.exploration_rate
                = DecayedTimes(training.exploration_rate_start, Len(c.episode_rewards),
                               training)

\* C31: every checkpoint of a run that started fresh, the periodic ones,
\* 'final' and 'interrupted' wherever the interrupt arrived, is consistent:
\* the saved exploration rate is the start rate decayed with the floor as
\* many times as the saved reward history has entries, and the history has
\* one entry per completed episode.
C31_CheckpointConsistent ==
    \A c \in checkpoints :
        /\ c.exploration_rate
               = DecayedTimes(training.exploration_rate_start, Len(c.episode_rewards),
                              training)
        /\ Len(c.episode_rewards) <= Len(episode_lengths)
        /\ c.tag >= 0 => Len(c.episode_rewards) = c.tag + 1

\* C33: the experiences of an episode are chained: the state of the first
\* is the vector reset() returned, the state of every later one is the
\* next_state of the one before it, and the last experience of a completed
\* episode, and no other, has done = true.
C33_EpisodeChain ==
    /\ Len(episode_data) = episode_length
    /\ \A j \in DOMAIN episode_data :
          /\ episode_data[j].state = IF j = 1 THEN ResetReturn(StateResponse)
                                     ELSE episode_data[j - 1].next_state
          /\ episode_data[j].done => j = Len(episode_data)
    /\ pc = "step" => \A j \in DOMAIN episode_data : ~episode_data[j].done
    /\ pc \in {"decay", "record", "save"} =>
          /\ episode_data # <<>>
          /\ episode_data[Len(episode_data)].done
    /\ episode_data # <<>> =>
          /\ state = episode_data[Len(episode_data)].next_state
          /\ buffer[Len(buffer)] = episode_data[Len(episode_data)]

\* the second episode of a run ended at its second step
C33_Witness ==
    /\ episode = 1
    /\ pc = "decay"
    /\ Len(episode_data) = 2
    /\ episode_data[1].next_state # episode_data[1].state
    /\ episode_data[2].state = episode_data[1].next_state
    /\ episode_data[2].next_state # episode_data[2].state
    /\ ~episode_data[1].done
    /\ episode_data[2].done

\* The process executes its next statement, and the simulator answers the
\* command it was sent or closes: a run does not stop while a step of it
\* is possible.
\* The runs of this specification use one configuration of the store and of
\* the update: neither takes part in the control flow of train.
InitRunFair ==
    /\ InitRun
    /\ min_size = 1
    /\ capacity = 2
    /\ training.update_frequency = 1

SpecRunFair == InitRunFair /\ [][NextRun]_vars /\ WF_vars(NextRun)

\* the episodes of a run on which nothing was raised: one reset per episode
\* begun, one entry in each history per episode ended
EpisodesCounted ==
    /\ resets <= training.max_episodes
    /\ Len(episode_rewards) = Len(episode_lengths)
    /\ Len(episode_rewards) \in {resets - 1, resets}
    /\ episode \in {resets - 1, resets}
    /\ episode <= Len(episode_rewards)

\* train returned after max_episodes episodes
Completed ==
    /\ pc = "exit"
    /\ resets = training.max_episodes
    /\ episode = training.max_episodes
    /\ Len(episode_rewards) = training.max_episodes
    /\ Len(episode_lengths) = training.max_episodes
    /\ Final \in Tags
    /\ socket = "closed"

\* C34: when every episode receives done = true and nothing is raised (no
\* transport error, no interrupt, a whole configuration), train() terminates
\* after exactly max_episodes episodes: one reset per episode, one entry in
\* the reward history and one in the length history per episode, then the
\* checkpoint 'final' and the close of the link.
C34_Terminates ==
    /\ [](exc = "" => EpisodesCounted)
    /\ <>(exc # "" \/ Completed)

\* a run of two episodes of two steps each has ended
C34_Witness ==
    /\ Completed
    /\ exc = ""
    /\ training.max_episodes = 2
    /\ episode_lengths = <<2, 2>>
    /\ total_steps = 4

====
